---- MODULE Spec2Model ----
(***************************************************************************)
(* Model of the Encryptor command line tool (src/src/main.rs).             *)
(*                                                                         *)
(* One process run is: main() checks and extracts its arguments, parses    *)
(* the nonce, dispatches on the command and runs encrypt() or decrypt()    *)
(* statement by statement.  The file system outlives a process run, so a   *)
(* behaviour is a sequence of process runs over one file system.           *)
(*                                                                         *)
(* Rust indices are 0-based, TLA+ sequences 1-based: args[i] of the source *)
(* is args[i+1] here; Len(args) is args.len().                             *)
(***************************************************************************)
EXTENDS Integers, Sequences, FiniteSets, TLC

(***************************************************************************)
(* Bounds of the model.                                                    *)
(***************************************************************************)
MaxPathLen == 2      \* longest file name drawn for the file-system and argv
MaxLen     == 1      \* longest plaintext drawn for the initial file
MaxRuns    == 2      \* process runs in one behaviour

(***************************************************************************)
(* Parameters of ring's AES_256_GCM, the algorithm named at lines 199/240. *)
(***************************************************************************)
KEY_LEN   == 32
NONCE_LEN == 12
TAG_LEN   == 16

None == -1

RECURSIVE SumW(_, _)
\* byte sum of s[1..n] with odd weights, modulo 256: changing one bit of one
\* byte changes the sum
SumW(s, n) == IF n = 0 THEN 0 ELSE (SumW(s, n - 1) + (2 * n - 1) * s[n]) % 256

RECURSIVE Mix(_, _)
\* position-weighted byte sum of s[1..n], modulo the prime 251
Mix(s, n) == IF n = 0 THEN 0 ELSE (Mix(s, n - 1) + n * s[n]) % 251

RECURSIVE XorN(_, _, _)
\* bitwise exclusive or of the n low bits of a and b
XorN(a, b, n) ==
    IF n = 0 THEN 0
    ELSE (((a % 2) + (b % 2)) % 2) + 2 * XorN(a \div 2, b \div 2, n - 1)

Xor(a, b) == XorN(a, b, 8)

(***************************************************************************)
(* The AEAD of the ring crate, as far as the program observes it: a key    *)
(* and nonce dependent keystream is xor-ed onto the buffer and a 16 byte   *)
(* tag that depends on key, nonce and every ciphertext bit is appended;    *)
(* opening recomputes the tag and decrypts only when it matches.           *)
(***************************************************************************)
KeyStream(seed, i) == (seed + 17 * i) % 256

Crypt(key, nonce, buf) ==
    LET seed == (Mix(key, Len(key)) + 31 * Mix(nonce, Len(nonce))) % 256
    IN  [i \in 1..Len(buf) |-> Xor(buf[i], KeyStream(seed, i))]

Tag(key, nonce, ct) ==
    LET auth == (Mix(key, Len(key)) + 7 * Mix(nonce, Len(nonce))
                   + SumW(ct, Len(ct)) + Len(ct)) % 256
    IN  [j \in 1..TAG_LEN |-> (auth + j) % 256]

\* aead::UnboundKey::new(&aead::AES_256_GCM, bytes): Err unless 32 bytes
UnboundKeyNew(bytes) ==
    IF Len(bytes) = KEY_LEN THEN [ok |-> TRUE, key |-> bytes]
    ELSE [ok |-> FALSE, key |-> <<>>]

\* aead::Nonce::try_assume_unique_for_key(nonce): Err unless 12 bytes
TryAssumeUniqueForKey(nonce) == Len(nonce) = NONCE_LEN

\* key.seal_in_place_append_tag(nonce, Aad::empty(), &mut contents):
\* the Vec is encrypted in place and extended by the tag
SealInPlaceAppendTag(key, nonce, contents) ==
    LET ct == Crypt(key, nonce, contents)
    IN  ct \o Tag(key, nonce, ct)

\* key.open_in_place(nonce, Aad::empty(), &mut contents): the argument is a
\* slice (&mut [u8]); on success the leading bytes of the slice are replaced
\* by the plaintext and the plaintext sub-slice is the RETURN value.  The
\* Vec behind the slice keeps its length, the tag bytes stay at its end.
\* What a failed call leaves in the slice is unspecified; decrypt returns at
\* once and drops the Vec, so the buffer is kept as it was.
OpenInPlace(key, nonce, contents) ==
    LET n  == Len(contents) - TAG_LEN
    IN  IF n < 0 THEN [ok |-> FALSE, buf |-> contents, plain |-> <<>>]
        ELSE LET ct  == SubSeq(contents, 1, n)
                 tag == SubSeq(contents, n + 1, Len(contents))
             IN  IF tag = Tag(key, nonce, ct)
                 THEN [ok    |-> TRUE,
                       buf   |-> Crypt(key, nonce, ct) \o tag,
                       plain |-> Crypt(key, nonce, ct)]
                 ELSE [ok |-> FALSE, buf |-> contents, plain |-> <<>>]

(***************************************************************************)
(* Paths are sequences of one-character strings.                           *)
(***************************************************************************)
DotEnc == <<".", "e", "n", "c">>

\* variant: the suffix is forgotten
EncryptedFilePathNoSuffix(file_path) == file_path

\* format!("{}.enc", file_path)
EncryptedFilePath(file_path) == file_path \o DotEnc

\* str::rfind: 0-based index of the last occurrence of c, or None
rfind(s, c) ==
    IF \E i \in 1..Len(s) : s[i] = c
    THEN (CHOOSE i \in 1..Len(s) :
             s[i] = c /\ \A j \in (i + 1)..Len(s) : s[j] # c) - 1
    ELSE None

\* str::split_at(index): the two halves around the 0-based index
split_at(s, index) == <<SubSeq(s, 1, index), SubSeq(s, index + 1, Len(s))>>

\* variant: find instead of rfind, the cut is at the first '.'
DecryptedFilePathFirstDot(file_path) ==
    IF \E i \in 1..Len(file_path) : file_path[i] = "."
    THEN LET index == (CHOOSE i \in 1..Len(file_path) :
                          /\ file_path[i] = "."
                          /\ \A j \in 1..(i - 1) : file_path[j] # ".") - 1
         IN  split_at(file_path, index)[1]
    ELSE file_path

\* lines 251-258
DecryptedFilePath(file_path) ==
    LET index == rfind(file_path, ".")
    IN  IF index # None THEN split_at(file_path, index)[1] ELSE file_path

(***************************************************************************)
(* The nonce argument is JSON text, kept as its token sequence.            *)
(***************************************************************************)
LB    == [t |-> "[", v |-> 0]
RB    == [t |-> "]", v |-> 0]
Comma == [t |-> ",", v |-> 0]
Num(n) == [t |-> "num", v |-> n]

\* serde_json::from_str::<Vec<u8>>: the text must be one JSON array of
\* integers, each of which fits a u8; the element count is not checked
from_str(toks) ==
    LET n     == Len(toks)
        inner == SubSeq(toks, 2, n - 1)
        m     == Len(inner)
        shape == /\ n >= 2
                 /\ toks[1] = LB
                 /\ toks[n] = RB
                 /\ \/ m = 0
                    \/ /\ m % 2 = 1
                       /\ \A i \in 1..m :
                            IF i % 2 = 1 THEN inner[i].t = "num"
                                         ELSE inner[i] = Comma
        count == IF m = 0 THEN 0 ELSE (m + 1) \div 2
    IN  IF shape /\ \A i \in 1..count : inner[2 * i - 1].v \in 0..255
        THEN [ok |-> TRUE, val |-> [i \in 1..count |-> inner[2 * i - 1].v]]
        ELSE [ok |-> FALSE, val |-> <<>>]

\* the JSON text of an array of integers
JsonArray(elems) ==
    <<LB>> \o
    [i \in 1..(IF Len(elems) = 0 THEN 0 ELSE 2 * Len(elems) - 1) |->
        IF i % 2 = 1 THEN Num(elems[(i + 1) \div 2]) ELSE Comma]
    \o <<RB>>

(***************************************************************************)
(* The file system: a function from the paths that exist to their entries. *)
(***************************************************************************)
File(d) == [kind |-> "file", data |-> d]
Dir     == [kind |-> "dir", data |-> <<>>]

Put(f, path, entry) ==
    [p \in (DOMAIN f) \cup {path} |-> IF p = path THEN entry ELSE f[p]]

\* File::open(path): the path must exist (a directory can be opened)
CanOpen(f, path) == path \in DOMAIN f

\* read_to_end: fails on a directory
CanRead(f, path) == f[path].kind = "file"

\* File::create(path): the path must name a new or a regular file
CanCreate(f, path) ==
    /\ path # <<>>
    /\ path \in DOMAIN f => f[path].kind = "file"

\* variant: an existing file is opened for writing without truncation
FileCreateNoTruncate(f, path) ==
    IF path \in DOMAIN f THEN f ELSE Put(f, path, File(<<>>))

\* File::create truncates an existing file
FileCreate(f, path) == Put(f, path, File(<<>>))

\* write_all on a handle at offset 0 that got k bytes of buf onto the disk:
\* the bytes replace the first k bytes of the file
FileWrite(f, path, buf, k) ==
    LET old == f[path].data
    IN  Put(f, path, File(SubSeq(buf, 1, k) \o SubSeq(old, k + 1, Len(old))))

\* the answers of the operating system to a create and to a write_all of
\* buf: with faults, a create may be refused (permissions) and a write may
\* stop after any number of bytes (disk full)
Granted(faults) == IF faults THEN BOOLEAN ELSE {TRUE}
Written(faults, buf) == IF faults THEN 0..Len(buf) ELSE {Len(buf)}

(***************************************************************************)
(* Inputs.                                                                 *)
(***************************************************************************)
PathChars == {"a", "."}

RECURSIVE SeqsUpTo(_, _)
SeqsUpTo(S, n) ==
    IF n = 0 THEN {<<>>}
    ELSE LET shorter == SeqsUpTo(S, n - 1)
         IN  shorter \cup {Append(s, x) : s \in shorter, x \in S}

\* names a regular file can have: not empty, and not "." or ".."
FileNames ==
    {p \in SeqsUpTo(PathChars, MaxPathLen) : \E i \in 1..Len(p) : p[i] # "."}

\* those names, and the names with ".enc" behind them (".enc" itself too)
Paths == FileNames \cup {p \o DotEnc : p \in FileNames \cup {<<>>}}

PlainBytes == {0, 255}
Plaintexts == SeqsUpTo(PlainBytes, MaxLen)

Fill(n, b) == [i \in 1..n |-> b]

\* content of a destination left over from earlier, longer than any artifact
Stale == Fill(TAG_LEN + MaxLen + 1, 7)

Commands  == {"encrypt", "decrypt", "shred"}
Passwords == {Fill(KEY_LEN, 49), Fill(KEY_LEN - 1, 49), Fill(KEY_LEN + 1, 49)}

GoodNonce == JsonArray(Fill(NONCE_LEN, 0))
NonceTexts ==
    { GoodNonce,
      JsonArray(Fill(NONCE_LEN - 1, 0)),                 \* 11 bytes
      JsonArray(Fill(NONCE_LEN + 1, 0)),                 \* 13 bytes
      JsonArray(Append(Fill(NONCE_LEN - 1, 0), 256)),    \* not a u8
      SubSeq(GoodNonce, 1, Len(GoodNonce) - 1) }         \* "]" missing

\* an artifact that an earlier encrypt has left
Artifacts ==
    { SealInPlaceAppendTag(Fill(KEY_LEN, 49), Fill(NONCE_LEN, 0), d) :
        d \in Plaintexts }

\* nothing; one file or directory; a plaintext and a stale file where encrypt
\* will write; an artifact and a stale file where decrypt will write
InitialFs ==
    {<<>>}
    \cup { Put(<<>>, p, e) :
             p \in Paths,
             e \in {File(d) : d \in Plaintexts \cup Artifacts} \cup {Dir} }
    \cup { Put(Put(<<>>, p, File(d)), p \o DotEnc, File(Stale)) :
             p \in FileNames, d \in Plaintexts }
    \cup { Put(Put(<<>>, p \o DotEnc, File(d)), p, File(Stale)) :
             p \in FileNames, d \in Artifacts }

(***************************************************************************)
(* State.                                                                  *)
(***************************************************************************)
VARIABLES
    fs,         \* the file system
    fs0,        \* the file system when the current process started
    runs,       \* processes started so far
    pc,         \* position of the current process
    args,       \* env::args().collect()
    command, password, file_path, nonce_str,   \* main's borrows of args
    nonce,      \* the parsed nonce
    contents,   \* the Vec<u8> buffer of encrypt/decrypt
    key,        \* the LessSafeKey
    result,     \* what encrypt/decrypt returned
    trace,      \* file operations and console lines of this process, in order
    prev,       \* summary of the previous process
    tampered    \* <<path>> of the artifact a bit was flipped in just before
                \* the current process started, else <<>>

vars == <<fs, fs0, runs, pc, args, command, password, file_path, nonce_str,
          nonce, contents, key, result, trace, prev, tampered>>

locals == <<command, password, file_path, nonce_str, nonce, contents, key,
            result>>

Ev(op, path, msg, ok) == [op |-> op, path |-> path, msg |-> msg, ok |-> ok]
Io(op, path, ok) == Ev(op, path, "", ok)
Println(msg)     == Ev("print", <<>>, msg, TRUE)

NoPrev == [command |-> "", password |-> <<>>, file_path |-> <<>>,
           nonce |-> <<>>, result |-> "none", plain |-> <<>>]

Init ==
    /\ fs \in InitialFs
    /\ fs0 = fs
    /\ runs = 0
    /\ pc = "idle"
    /\ args = <<>>
    /\ command = ""
    /\ password = <<>>
    /\ file_path = <<>>
    /\ nonce_str = <<>>
    /\ nonce = <<>>
    /\ contents = <<>>
    /\ key = <<>>
    /\ result = "none"
    /\ trace = <<>>
    /\ prev = NoPrev
    /\ tampered = <<>>

\* the run that has just ended, as the next one sees it
Summary ==
    [command   |-> command,
     password  |-> password,
     file_path |-> file_path,
     nonce     |-> nonce,
     result    |-> result,
     plain     |-> IF file_path \in DOMAIN fs0 /\ fs0[file_path].kind = "file"
                   THEN fs0[file_path].data ELSE <<>>]

\* a process is started with the argument list argv
Start(argv) ==
    /\ pc \in {"idle", "exit", "panic"}
    /\ runs < MaxRuns
    /\ runs' = runs + 1
    /\ prev' = (IF runs = 0 THEN NoPrev ELSE Summary)
    /\ args' = argv
    /\ fs0' = fs
    /\ pc' = "main"
    /\ command' = ""
    /\ password' = <<>>
    /\ file_path' = <<>>
    /\ nonce_str' = <<>>
    /\ nonce' = <<>>
    /\ contents' = <<>>
    /\ key' = <<>>
    /\ result' = "none"
    /\ trace' = <<>>
    /\ tampered' = (IF pc = "idle" THEN tampered ELSE <<>>)
    /\ UNCHANGED fs

(***************************************************************************)
(* main                                                                    *)
(***************************************************************************)
\* lines 46-51: if args.len() < 4 { println!(usage); return; }
MainCheckArgs ==
    /\ pc = "main"
    /\ IF Len(args) < 4
       THEN /\ trace' = Append(trace, Println("Usage"))
            /\ pc' = "exit"
       ELSE /\ pc' = "main_args"
            /\ UNCHANGED trace
    /\ UNCHANGED <<fs, fs0, runs, args, locals, prev, tampered>>

\* lines 58-61: &args[1] .. &args[4]; indexing past the end panics
MainExtractArgs ==
    /\ pc = "main_args"
    /\ IF Len(args) < 5
       THEN /\ pc' = "panic"
            /\ UNCHANGED <<command, password, file_path, nonce_str>>
       ELSE /\ command' = args[2]
            /\ password' = args[3]
            /\ file_path' = args[4]
            /\ nonce_str' = args[5]
            /\ pc' = "main_nonce"
    /\ UNCHANGED <<fs, fs0, runs, args, nonce, contents, key, result, trace,
                   prev, tampered>>

\* variant: unwrap_or_default() instead of unwrap()
MainParseNonceLenient ==
    /\ pc = "main_nonce"
    /\ LET r == from_str(nonce_str)
       IN  IF r.ok
           THEN /\ nonce' = r.val
                /\ UNCHANGED trace
           ELSE /\ trace' = Append(trace, Println("Error parsing nonce"))
                /\ nonce' = <<>>
    /\ pc' = "main_match"
    /\ UNCHANGED <<fs, fs0, runs, args, command, password, file_path,
                   nonce_str, contents, key, result, prev, tampered>>

\* lines 68-73: serde_json::from_str(..).map_err(println).unwrap()
MainParseNonce ==
    /\ pc = "main_nonce"
    /\ LET r == from_str(nonce_str)
       IN  IF r.ok
           THEN /\ nonce' = r.val
                /\ pc' = "main_match"
                /\ UNCHANGED trace
           ELSE /\ trace' = Append(trace, Println("Error parsing nonce"))
                /\ pc' = "panic"
                /\ UNCHANGED nonce
    /\ UNCHANGED <<fs, fs0, runs, args, command, password, file_path,
                   nonce_str, contents, key, result, prev, tampered>>

\* lines 122-134: match command.as_str()
MainMatch ==
    /\ pc = "main_match"
    /\ IF command = "encrypt"
       THEN pc' = "enc_open" /\ UNCHANGED trace
       ELSE IF command = "decrypt"
       THEN pc' = "dec_open" /\ UNCHANGED trace
       ELSE /\ trace' = Append(trace, Println("Invalid command"))
            /\ pc' = "exit"
    /\ UNCHANGED <<fs, fs0, runs, args, locals, prev, tampered>>

\* lines 124-126: if let Err(err) = encrypt(..) { println!(..) }
MainEncryptResult ==
    /\ pc = "enc_ret"
    /\ trace' = (IF result = "IoError"
                 THEN Append(trace, Println("Encryption error: IO error"))
                 ELSE IF result = "AeadError"
                 THEN Append(trace, Println("Encryption error: AEAD error"))
                 ELSE trace)
    /\ pc' = "exit"
    /\ UNCHANGED <<fs, fs0, runs, args, locals, prev, tampered>>

\* lines 129-131: if let Err(err) = decrypt(..) { println!(..) }
MainDecryptResult ==
    /\ pc = "dec_ret"
    /\ trace' = (IF result = "IoError"
                 THEN Append(trace, Println("Decryption error: IO error"))
                 ELSE IF result = "AeadError"
                 THEN Append(trace, Println("Decryption error: AEAD error"))
                 ELSE trace)
    /\ pc' = "exit"
    /\ UNCHANGED <<fs, fs0, runs, args, locals, prev, tampered>>

(***************************************************************************)
(* encrypt, lines 171-230.  Every `?` returns the error to main at once.   *)
(***************************************************************************)
\* variant: the key is built before the source is opened
EncOpenAfterKey ==
    /\ pc = "enc_open"
    /\ IF ~UnboundKeyNew(password).ok
       THEN /\ pc' = "enc_ret"
            /\ result' = "AeadError"
            /\ UNCHANGED trace
       ELSE LET ok == CanOpen(fs, file_path)
            IN  /\ trace' = Append(trace, Io("open", file_path, ok))
                /\ IF ok THEN pc' = "enc_read" /\ UNCHANGED result
                         ELSE pc' = "enc_ret" /\ result' = "IoError"
    /\ UNCHANGED <<fs, fs0, runs, args, command, password, file_path,
                   nonce_str, nonce, contents, key, prev, tampered>>

\* line 173: File::open(file_path)?
EncOpen ==
    /\ pc = "enc_open"
    /\ LET ok == CanOpen(fs, file_path)
       IN  /\ trace' = Append(trace, Io("open", file_path, ok))
           /\ IF ok THEN pc' = "enc_read" /\ UNCHANGED result
                    ELSE pc' = "enc_ret" /\ result' = "IoError"
    /\ UNCHANGED <<fs, fs0, runs, args, command, password, file_path,
                   nonce_str, nonce, contents, key, prev, tampered>>

\* line 195: file.read_to_end(&mut contents)?
EncRead ==
    /\ pc = "enc_read"
    /\ LET ok == CanRead(fs, file_path)
       IN  /\ trace' = Append(trace, Io("read", file_path, ok))
           /\ IF ok THEN /\ contents' = fs[file_path].data
                         /\ pc' = "enc_key"
                         /\ UNCHANGED result
                    ELSE /\ pc' = "enc_ret"
                         /\ result' = "IoError"
                         /\ UNCHANGED contents
    /\ UNCHANGED <<fs, fs0, runs, args, command, password, file_path,
                   nonce_str, nonce, key, prev, tampered>>

\* variant: the Result of UnboundKey::new is not propagated
EncKeyUnchecked ==
    /\ pc = "enc_key"
    /\ key' = password
    /\ pc' = "enc_nonce"
    /\ UNCHANGED <<fs, fs0, runs, args, command, password, file_path,
                   nonce_str, nonce, contents, result, trace, prev, tampered>>

\* lines 199-205: UnboundKey::new(&AES_256_GCM, password.as_bytes())?
EncKey ==
    /\ pc = "enc_key"
    /\ LET r == UnboundKeyNew(password)
       IN  IF r.ok THEN /\ key' = r.key
                        /\ pc' = "enc_nonce"
                        /\ UNCHANGED result
                   ELSE /\ pc' = "enc_ret"
                        /\ result' = "AeadError"
                        /\ UNCHANGED key
    /\ UNCHANGED <<fs, fs0, runs, args, command, password, file_path,
                   nonce_str, nonce, contents, trace, prev, tampered>>

\* variant: the nonce length is not checked
EncNonceUnchecked ==
    /\ pc = "enc_nonce"
    /\ pc' = "enc_seal"
    /\ UNCHANGED <<fs, fs0, runs, args, command, password, file_path,
                   nonce_str, nonce, contents, key, result, trace, prev,
                   tampered>>

\* line 220: aead::Nonce::try_assume_unique_for_key(nonce)?
EncNonce ==
    /\ pc = "enc_nonce"
    /\ IF TryAssumeUniqueForKey(nonce)
       THEN pc' = "enc_seal" /\ UNCHANGED result
       ELSE pc' = "enc_ret" /\ result' = "AeadError"
    /\ UNCHANGED <<fs, fs0, runs, args, command, password, file_path,
                   nonce_str, nonce, contents, key, trace, prev, tampered>>

\* lines 219-223: key.seal_in_place_append_tag(nonce, aad, &mut contents)?
EncSeal ==
    /\ pc = "enc_seal"
    /\ contents' = SealInPlaceAppendTag(key, nonce, contents)
    /\ pc' = "enc_create"
    /\ UNCHANGED <<fs, fs0, runs, args, command, password, file_path,
                   nonce_str, nonce, key, result, trace, prev, tampered>>

\* line 226: File::create(format!("{}.enc", file_path))?
\* where the operating system may fail, it may refuse (permissions)
EncCreate(faults) ==
    /\ pc = "enc_create"
    /\ \E granted \in Granted(faults) :
         LET dest == EncryptedFilePath(file_path)
             ok   == granted /\ CanCreate(fs, dest)
         IN  /\ trace' = Append(trace, Io("create", dest, ok))
             /\ IF ok THEN /\ fs' = FileCreate(fs, dest)
                           /\ pc' = "enc_write"
                           /\ UNCHANGED result
                      ELSE /\ pc' = "enc_ret"
                           /\ result' = "IoError"
                           /\ UNCHANGED fs
    /\ UNCHANGED <<fs0, runs, args, command, password, file_path,
                   nonce_str, nonce, contents, key, prev, tampered>>

\* line 227: encrypted_file.write_all(&contents)?
\* where the operating system may fail, the write may stop after k bytes
EncWrite(faults) ==
    /\ pc = "enc_write"
    /\ \E k \in Written(faults, contents) :
         LET dest == EncryptedFilePath(file_path)
             ok   == k = Len(contents)
         IN  /\ trace' = Append(trace, Io("write", dest, ok))
             /\ fs' = FileWrite(fs, dest, contents, k)
             /\ result' = (IF ok THEN "Ok" ELSE "IoError")
    /\ pc' = "enc_ret"
    /\ UNCHANGED <<fs0, runs, args, command, password, file_path,
                   nonce_str, nonce, contents, key, prev, tampered>>

(***************************************************************************)
(* decrypt, lines 233-291.                                                 *)
(***************************************************************************)
\* line 235: File::open(file_path)?
DecOpen ==
    /\ pc = "dec_open"
    /\ LET ok == CanOpen(fs, file_path)
       IN  /\ trace' = Append(trace, Io("open", file_path, ok))
           /\ IF ok THEN pc' = "dec_read" /\ UNCHANGED result
                    ELSE pc' = "dec_ret" /\ result' = "IoError"
    /\ UNCHANGED <<fs, fs0, runs, args, command, password, file_path,
                   nonce_str, nonce, contents, key, prev, tampered>>

\* line 237: file.read_to_end(&mut contents)?
DecRead ==
    /\ pc = "dec_read"
    /\ LET ok == CanRead(fs, file_path)
       IN  /\ trace' = Append(trace, Io("read", file_path, ok))
           /\ IF ok THEN /\ contents' = fs[file_path].data
                         /\ pc' = "dec_key"
                         /\ UNCHANGED result
                    ELSE /\ pc' = "dec_ret"
                         /\ result' = "IoError"
                         /\ UNCHANGED contents
    /\ UNCHANGED <<fs, fs0, runs, args, command, password, file_path,
                   nonce_str, nonce, key, prev, tampered>>

\* lines 240-241: UnboundKey::new(&AES_256_GCM, password.as_bytes())?
DecKey ==
    /\ pc = "dec_key"
    /\ LET r == UnboundKeyNew(password)
       IN  IF r.ok THEN /\ key' = r.key
                        /\ pc' = "dec_nonce"
                        /\ UNCHANGED result
                   ELSE /\ pc' = "dec_ret"
                        /\ result' = "AeadError"
                        /\ UNCHANGED key
    /\ UNCHANGED <<fs, fs0, runs, args, command, password, file_path,
                   nonce_str, nonce, contents, trace, prev, tampered>>

\* line 245: aead::Nonce::try_assume_unique_for_key(nonce)?
DecNonce ==
    /\ pc = "dec_nonce"
    /\ IF TryAssumeUniqueForKey(nonce)
       THEN pc' = "dec_unseal" /\ UNCHANGED result
       ELSE pc' = "dec_ret" /\ result' = "AeadError"
    /\ UNCHANGED <<fs, fs0, runs, args, command, password, file_path,
                   nonce_str, nonce, contents, key, trace, prev, tampered>>

\* variant: the Result of open_in_place is not propagated
DecOpenInPlaceUnchecked ==
    /\ pc = "dec_unseal"
    /\ contents' = OpenInPlace(key, nonce, contents).buf
    /\ pc' = "dec_create"
    /\ UNCHANGED <<fs, fs0, runs, args, command, password, file_path,
                   nonce_str, nonce, key, result, trace, prev, tampered>>

\* lines 244-248: key.open_in_place(nonce, aad, &mut contents)?
\* the returned plaintext slice is dropped; contents is the whole Vec
DecOpenInPlace ==
    /\ pc = "dec_unseal"
    /\ LET r == OpenInPlace(key, nonce, contents)
       IN  /\ contents' = r.buf
           /\ IF r.ok THEN pc' = "dec_create" /\ UNCHANGED result
                      ELSE pc' = "dec_ret" /\ result' = "AeadError"
    /\ UNCHANGED <<fs, fs0, runs, args, command, password, file_path,
                   nonce_str, nonce, key, trace, prev, tampered>>

\* lines 251-287: File::create(decrypted_file_path)?
DecCreate(faults) ==
    /\ pc = "dec_create"
    /\ \E granted \in Granted(faults) :
         LET dest == DecryptedFilePath(file_path)
             ok   == granted /\ CanCreate(fs, dest)
         IN  /\ trace' = Append(trace, Io("create", dest, ok))
             /\ IF ok THEN /\ fs' = FileCreate(fs, dest)
                           /\ pc' = "dec_write"
                           /\ UNCHANGED result
                      ELSE /\ pc' = "dec_ret"
                           /\ result' = "IoError"
                           /\ UNCHANGED fs
    /\ UNCHANGED <<fs0, runs, args, command, password, file_path,
                   nonce_str, nonce, contents, key, prev, tampered>>

\* line 288: decrypted_file.write_all(&contents)?
DecWrite(faults) ==
    /\ pc = "dec_write"
    /\ \E k \in Written(faults, contents) :
         LET dest == DecryptedFilePath(file_path)
             ok   == k = Len(contents)
         IN  /\ trace' = Append(trace, Io("write", dest, ok))
             /\ fs' = FileWrite(fs, dest, contents, k)
             /\ result' = (IF ok THEN "Ok" ELSE "IoError")
    /\ pc' = "dec_ret"
    /\ UNCHANGED <<fs0, runs, args, command, password, file_path,
                   nonce_str, nonce, contents, key, prev, tampered>>

(***************************************************************************)
(* The program.                                                            *)
(***************************************************************************)
Step(faults) ==
    \/ MainCheckArgs
    \/ MainExtractArgs
    \/ MainParseNonce
    \/ MainMatch
    \/ EncOpen
    \/ EncRead
    \/ EncKey
    \/ EncNonce
    \/ EncSeal
    \/ EncCreate(faults)
    \/ EncWrite(faults)
    \/ MainEncryptResult
    \/ DecOpen
    \/ DecRead
    \/ DecKey
    \/ DecNonce
    \/ DecOpenInPlace
    \/ DecCreate(faults)
    \/ DecWrite(faults)
    \/ MainDecryptResult

\* the files that exist and their ".enc" siblings
NamedPaths == (DOMAIN fs) \cup {p \o DotEnc : p \in DOMAIN fs}

FullArgv ==
    { <<"encryptor", c, pw, p, n>> :
        c \in Commands, pw \in Passwords, p \in NamedPaths \cup {<<>>},
        n \in NonceTexts }

ShortArgv ==
    { SubSeq(<<"encryptor", "encrypt", Fill(KEY_LEN, 49), <<"a">>>>, 1, k) :
        k \in 1..4 }

Argv == FullArgv \cup ShortArgv

\* one process run on any argument list
Run == runs = 0 /\ \E argv \in Argv : Start(argv)

Next == Run \/ Step(TRUE)

Spec == Init /\ [][Next]_vars

(***************************************************************************)
(* Several process runs, one after the other, on a file system without     *)
(* faults and on well-formed argument lists that name a file that exists   *)
(* or the ".enc" sibling of one.                                           *)
(***************************************************************************)
OtherNonce == JsonArray(Fill(NONCE_LEN, 1))

SeqArgv ==
    { <<"encryptor", c, pw, p, n>> :
        c \in {"encrypt", "decrypt"},
        pw \in {Fill(KEY_LEN, 49), Fill(KEY_LEN, 50)},
        p \in NamedPaths,
        n \in {GoodNonce, OtherNonce} }

InitSeq ==
    /\ Init
    /\ \E p \in FileNames, d \in Plaintexts : fs = Put(<<>>, p, File(d))

RunSeq == \E argv \in SeqArgv : Start(argv)

NextSeq == RunSeq \/ Step(FALSE)

SpecSeq == InitSeq /\ [][NextSeq]_vars

(***************************************************************************)
(* The same with one key and nonce, and somebody who, before the last run, *)
(* flips one bit of the artifact that a successful encrypt has just        *)
(* written.                                                                *)
(***************************************************************************)
FlipBit(b, k) == Xor(b, 2 ^ k)

\* the run that follows the flip is a decrypt of the changed artifact
TamperArgv ==
    IF pc = "idle" /\ tampered # <<>>
    THEN { <<"encryptor", "decrypt", Fill(KEY_LEN, 49), tampered[1], GoodNonce>> }
    ELSE { <<"encryptor", c, Fill(KEY_LEN, 49), p, GoodNonce>> :
             c \in {"encrypt", "decrypt"}, p \in NamedPaths }

Tamper ==
    /\ pc = "exit"
    /\ command = "encrypt"
    /\ result = "Ok"
    /\ runs = MaxRuns - 1
    /\ LET path == file_path \o DotEnc
           data == fs[path].data
       IN  \E i \in 1..Len(data), k \in 0..7 :
             /\ fs' = Put(fs, path, File([data EXCEPT ![i] = FlipBit(data[i], k)]))
             /\ tampered' = <<path>>
    /\ pc' = "idle"
    /\ UNCHANGED <<fs0, runs, args, locals, trace, prev>>

RunTamper == \E argv \in TamperArgv : Start(argv)

NextTamper == RunTamper \/ Tamper \/ Step(FALSE)

SpecTamper == InitSeq /\ [][NextTamper]_vars

(***************************************************************************)
(* Properties.                                                             *)
(***************************************************************************)
Called == command \in {"encrypt", "decrypt"}
Ended  == pc \in {"exit", "panic"}

HasDot(path) == \E i \in 1..Len(path) : path[i] = "."

Readable(f, path) == path \in DOMAIN f /\ f[path].kind = "file"

EntryAt(f, path) ==
    IF path \in DOMAIN f THEN f[path] ELSE [kind |-> "none", data |-> <<>>]

NoDestination ==
    \A i \in DOMAIN trace : trace[i].op \notin {"create", "write"}

\* this run is a decrypt of what the previous run encrypted, with the same
\* password and nonce
DecryptsPrevious ==
    /\ command = "decrypt"
    /\ prev.command = "encrypt"
    /\ prev.result = "Ok"
    /\ password = prev.password
    /\ nonce = prev.nonce
    /\ file_path = prev.file_path \o <<".", "e", "n", "c">>

\* C1: after encrypt(K, path, N) on a file holding P, decrypt(K, path.enc, N)
\* succeeds and leaves exactly P, no byte more, in the file at path
RoundTrip ==
    (pc = "exit" /\ DecryptsPrevious /\ tampered = <<>>)
        => /\ result = "Ok"
           /\ fs[prev.file_path] = File(prev.plain)

\* what the code does instead: the plaintext comes back followed by the tag
RoundTripKeepsTag ==
    (pc = "exit" /\ DecryptsPrevious /\ tampered = <<>>)
        => /\ result = "Ok"
           /\ Len(fs[prev.file_path].data) = Len(prev.plain) + TAG_LEN
           /\ SubSeq(fs[prev.file_path].data, 1, Len(prev.plain)) = prev.plain

\* C2: decrypt of an artifact in which one bit was flipped, with the password
\* and nonce it was encrypted with, returns AeadError and at no point creates
\* or changes a file
TamperDetected ==
    (DecryptsPrevious /\ tampered = <<file_path>>)
        => /\ fs = fs0
           /\ NoDestination
           /\ pc = "exit" => result = "AeadError"

TamperDetectedWitness ==
    /\ DecryptsPrevious
    /\ tampered = <<file_path>>
    /\ pc = "exit"
    /\ result = "AeadError"
    /\ fs0[file_path].data # <<>>

\* C3 as stated: whatever encrypt or decrypt is called on and however it
\* ends, the file at the input path is afterwards what it was before
SourceNeverChanged ==
    Called => EntryAt(fs, file_path) = EntryAt(fs0, file_path)

\* C3 amended: encrypt, and decrypt of a path with a '.', never change the
\* file at the input path; decrypt of a path without '.' has the input path
\* as its destination, which it creates (truncates) and writes
SourceKept ==
    /\ (Called /\ (command = "encrypt" \/ HasDot(file_path)))
          => EntryAt(fs, file_path) = EntryAt(fs0, file_path)
    /\ (command = "decrypt" /\ ~HasDot(file_path))
          => \A i \in DOMAIN trace :
                trace[i].op \in {"create", "write"} => trace[i].path = file_path

SourceKeptWitness ==
    /\ pc = "exit"
    /\ command = "decrypt"
    /\ HasDot(file_path)
    /\ result = "Ok"
    /\ fs # fs0

\* C4: encrypt writes to the input path followed by ".enc"; decrypt writes to
\* the input path cut just before its last '.', or to the input path itself
\* when it has no '.'; so decrypt of p.enc writes to p
PathDerivation ==
    \A i \in DOMAIN trace :
       trace[i].op \in {"create", "write"} =>
          LET d == trace[i].path
              n == Len(file_path)
          IN  IF command = "encrypt"
              THEN /\ Len(d) = n + 4
                   /\ SubSeq(d, 1, n) = file_path
                   /\ SubSeq(d, n + 1, n + 4) = <<".", "e", "n", "c">>
              ELSE /\ HasDot(file_path) =>
                        \E k \in 1..n :
                           /\ file_path[k] = "."
                           /\ \A j \in (k + 1)..n : file_path[j] # "."
                           /\ d = SubSeq(file_path, 1, k - 1)
                   /\ ~HasDot(file_path) => d = file_path
                   /\ (n >= 4 /\ SubSeq(file_path, n - 3, n) =
                                    <<".", "e", "n", "c">>)
                         => d = SubSeq(file_path, 1, n - 4)

PathDerivationWitness ==
    /\ pc = "exit"
    /\ command = "decrypt"
    /\ result = "Ok"
    /\ Cardinality({i \in 1..Len(file_path) : file_path[i] = "."}) >= 2
    /\ \E i \in DOMAIN trace : trace[i].op = "write"

\* C5 as stated: a password that is not 32 bytes long makes encrypt and
\* decrypt fail with AeadError, and no file is created or changed
KeyLengthAlwaysAead ==
    (pc = "exit" /\ Called /\ Len(password) # KEY_LEN)
        => result = "AeadError" /\ fs = fs0

\* C5 amended: with a password that is not 32 bytes long, encrypt and decrypt
\* fail with AeadError when the source can be opened and read, and with
\* IoError before the key is built when it cannot; in both cases no file is
\* created or changed
KeyLengthEnforced ==
    (pc = "exit" /\ Called /\ Len(password) # KEY_LEN)
        => /\ result = (IF Readable(fs0, file_path) THEN "AeadError"
                                                   ELSE "IoError")
           /\ fs = fs0
           /\ NoDestination

KeyLengthEnforcedWitness ==
    /\ pc = "exit"
    /\ command = "encrypt"
    /\ Len(password) = KEY_LEN - 1
    /\ Len(nonce) = NONCE_LEN
    /\ result = "AeadError"

\* C6 as stated: a nonce that is not 12 bytes long makes encrypt and decrypt
\* fail with AeadError, the buffer is neither sealed nor opened and no file
\* is created or changed
NonceLengthAlwaysAead ==
    (pc = "exit" /\ Called /\ Len(nonce) # NONCE_LEN)
        => /\ result = "AeadError"
           /\ fs = fs0

\* C6 amended: with a nonce that is not 12 bytes long, encrypt and decrypt
\* fail with AeadError when the source can be opened and read, and with
\* IoError before the nonce is looked at when it cannot; in both cases the
\* buffer is neither sealed nor opened and no file is created or changed
NonceLengthEnforced ==
    (pc = "exit" /\ Called /\ Len(nonce) # NONCE_LEN)
        => /\ result = (IF Readable(fs0, file_path) THEN "AeadError"
                                                   ELSE "IoError")
           /\ contents = (IF Readable(fs0, file_path)
                          THEN fs0[file_path].data ELSE <<>>)
           /\ fs = fs0
           /\ NoDestination

NonceLengthEnforcedWitness ==
    /\ pc = "exit"
    /\ command = "encrypt"
    /\ Len(password) = KEY_LEN
    /\ Len(nonce) = NONCE_LEN - 1
    /\ result = "AeadError"
    /\ contents # <<>>

\* C7: after a successful encrypt of a source of n bytes the destination
\* holds n + 16 bytes, the n ciphertext bytes and then the tag, and nothing
\* of what a file at that path held before
ArtifactFormat ==
    (pc = "exit" /\ command = "encrypt" /\ result = "Ok")
        => LET src  == fs0[file_path].data
               dest == file_path \o <<".", "e", "n", "c">>
               ct   == Crypt(password, nonce, src)
           IN  /\ dest \in DOMAIN fs
               /\ Len(fs[dest].data) = Len(src) + TAG_LEN
               /\ fs[dest].data = ct \o Tag(password, nonce, ct)

ArtifactFormatWitness ==
    /\ pc = "exit"
    /\ command = "encrypt"
    /\ result = "Ok"
    /\ (file_path \o <<".", "e", "n", "c">>) \in DOMAIN fs0
    /\ fs0[file_path].data # <<>>

\* C8: the process never panics, whatever its arguments and the file system
NeverPanics == pc # "panic"

\* C9: started with fewer than 4 arguments after the program name, the
\* process prints the usage message, does no file I/O and exits normally
UsageOnFewArguments ==
    (Ended /\ Len(args) - 1 < 4)
        => /\ pc = "exit"
           /\ trace = <<Println("Usage")>>
           /\ fs = fs0

\* what the code does: usage for fewer than 3 arguments after the program
\* name, a panic for exactly 3
UsageOnFewerThanThree ==
    (Ended /\ Len(args) - 1 < 4)
        => IF Len(args) - 1 < 3
           THEN pc = "exit" /\ trace = <<Println("Usage")>> /\ fs = fs0
           ELSE pc = "panic" /\ trace = <<>> /\ fs = fs0

NonceParses   == Len(args) >= 5 /\ from_str(args[5]).ok
NonceRejected == Len(args) >= 5 /\ ~from_str(args[5]).ok
NonceWrongLen == NonceParses /\ Len(from_str(args[5]).val) # NONCE_LEN

\* C10 as stated: when the nonce argument is malformed, holds a non-byte or
\* has not 12 elements, no file is opened, read, created or written before
\* the report
NonceFailureBeforeFileIo ==
    (NonceRejected \/ NonceWrongLen)
        => \A i \in DOMAIN trace :
              (trace[i].op # "print" /\ trace[i].ok)
                 => \E j \in 1..(i - 1) : trace[j].op = "print"

\* C10 amended: when the nonce argument is malformed JSON or holds an element
\* that is not a byte, the failure is reported before any file operation (and
\* none follows).  An array of bytes that has not 12 elements parses; its
\* length is only checked inside encrypt/decrypt, after the source was opened
\* and read and before any file is created or written
NonceValidationOrder ==
    /\ (NonceRejected /\ pc \notin {"main", "main_args", "main_nonce"})
          => pc = "panic" /\ trace = <<Println("Error parsing nonce")>>
    /\ NonceWrongLen
          => /\ NoDestination
             /\ \A i \in DOMAIN trace :
                   (trace[i].op = "print" /\ trace[i].msg # "Invalid command")
                      => /\ trace[1].op = "open"
                         /\ i > 1
                         /\ result = "AeadError" => i = 3 /\ trace[2].op = "read"

NonceValidationOrderWitness ==
    /\ pc = "exit"
    /\ NonceWrongLen
    /\ Len(password) = KEY_LEN
    /\ result = "AeadError"
    /\ Len(trace) = 3

\* the file operations of this process, in order, without the console lines
IoEvents == SelectSeq(trace, LAMBDA e : e.op # "print")

Ops(events) == [i \in 1..Len(events) |-> events[i].op]

AllOk(events) == \A i \in 1..Len(events) : events[i].ok

\* C11: encrypt and decrypt run open source, read source, build key, check
\* nonce length, seal/open buffer, create destination, write destination in
\* this order, stop at the first step that fails, return its error (IoError
\* for a file step, AeadError for a key, nonce or cipher step) and do none of
\* the later steps; so an unreadable source gives IoError whatever the
\* password and nonce are, and the destination is created only after every
\* cryptographic step has succeeded
FirstErrorPropagation ==
    Called =>
       LET io       == IoEvents
           exists   == file_path \in DOMAIN fs0
           regular  == exists /\ fs0[file_path].kind = "file"
           keyOk    == Len(password) = KEY_LEN
           nonceOk  == Len(nonce) = NONCE_LEN
           cipherOk == \/ command = "encrypt"
                       \/ OpenInPlace(password, nonce, fs0[file_path].data).ok
           cryptoOk == regular /\ keyOk /\ nonceOk /\ cipherOk
       IN  /\ ((\E i \in 1..Len(io) : io[i].op \in {"create", "write"})
                  \/ fs # fs0) => cryptoOk
           /\ result # "none" =>
                IF ~exists
                THEN /\ result = "IoError"
                     /\ Ops(io) = <<"open">> /\ ~io[1].ok
                     /\ contents = <<>> /\ key = <<>> /\ fs = fs0
                ELSE IF ~regular
                THEN /\ result = "IoError"
                     /\ Ops(io) = <<"open", "read">> /\ io[1].ok /\ ~io[2].ok
                     /\ contents = <<>> /\ key = <<>> /\ fs = fs0
                ELSE IF ~keyOk
                THEN /\ result = "AeadError"
                     /\ Ops(io) = <<"open", "read">> /\ AllOk(io)
                     /\ contents = fs0[file_path].data /\ key = <<>>
                     /\ fs = fs0
                ELSE IF ~nonceOk
                THEN /\ result = "AeadError"
                     /\ Ops(io) = <<"open", "read">> /\ AllOk(io)
                     /\ contents = fs0[file_path].data /\ key = password
                     /\ fs = fs0
                ELSE IF ~cipherOk
                THEN /\ result = "AeadError"
                     /\ Ops(io) = <<"open", "read">> /\ AllOk(io)
                     /\ fs = fs0
                ELSE IF Len(io) = 3
                THEN /\ result = "IoError"
                     /\ Ops(io) = <<"open", "read", "create">>
                     /\ io[1].ok /\ io[2].ok /\ ~io[3].ok
                     /\ fs = fs0
                ELSE /\ Ops(io) = <<"open", "read", "create", "write">>
                     /\ io[1].ok /\ io[2].ok /\ io[3].ok
                     /\ result = (IF io[4].ok THEN "Ok" ELSE "IoError")

FirstErrorPropagationWitness ==
    /\ pc = "exit"
    /\ command = "decrypt"
    /\ file_path \notin DOMAIN fs0
    /\ Len(password) # KEY_LEN
    /\ Len(nonce) # NONCE_LEN
    /\ result = "IoError"
    /\ Len(IoEvents) = 1

====
